---- MODULE Spec2Model ----
(***************************************************************************)
(* Model of ci/headless_playback.py: the headless playback fixture         *)
(* harness.  One run of main() is a behaviour of Spec; pc names the step   *)
(* of main() that is executed next.  The collaborators (the fixture        *)
(* matrix file, urlretrieve, cargo, the binary under test) are             *)
(* nondeterministic choices over the outcomes they can produce.            *)
(*                                                                         *)
(* Assumptions on the inputs: every fixture of the matrix has an "id" key, *)
(* and the writes of the per-fixture log and of the report succeed.        *)
(***************************************************************************)
EXTENDS Integers, Sequences, FiniteSets

VARIABLES
    environ,      \* os.environ of the harness process: variable name |-> value
    args,         \* parse_args(): [suite, skip_build, release]
    matrix,       \* content of the fixture matrix file: data["fixtures"]
    cache,        \* file names present in downloads_dir
    disk,         \* binary paths present on disk (the path of the other build mode is never read)
    pc,           \* step of main() to execute next
    fixtures,     \* main: local `fixtures`
    binary,       \* main: local `binary`
    idx,          \* main: position of the for loop in `fixtures` (1-based)
    file_path,    \* main: local `file_path`
    results,      \* main: local `results`
    logs,         \* log_dir: id |-> exit codes written to log_dir/{id}.log, in order
    reports,      \* contents written to report_path, in order
    exit_status,  \* <<>> while running, <<c>> once the process ended with code c
    error,        \* category of the exception that was raised, "none" if none
    ensured,      \* history: fixtures ensure_download was called for
    downloads,    \* history: fixtures urlretrieve was called for
    executed,     \* history: [fixture, binary, input, env] of every run of the binary under test
    builds        \* history: release flag of every invocation of cargo build

vars == <<environ, args, matrix, cache, disk, pc, fixtures, binary, idx, file_path,
          results, logs, reports, exit_status, error, ensured, downloads,
          executed, builds>>

(* ------------------------------ bounds -------------------------------- *)

\* Longest fixture matrix considered.
MaxCatalog == 2

\* Most calls of ensure_download in the stand-alone cache specification.
MaxCalls == 3

(* --------------------------- value domains ---------------------------- *)

\* A key that is absent from the dict (dict.get gives None) or empty.
Missing == "None"

\* Value of `binary` when the build is skipped (line 180).
None == "None"

Ids == {"a", "b"}

Files == {"a.mp4", "b.mp4"}

\* The url a fixture names when it names one: one source location per id.
UrlOf(fixture_id) == IF fixture_id = "a" THEN "http://x/a.mp4" ELSE "http://x/b.mp4"

Urls == {UrlOf(i) : i \in Ids}

\* The values of the "suite" field found in a matrix.
Suites == {"smoke", "full"}

\* argparse choices of --suite.
SuiteChoices == {"smoke", "full"}

\* Exit codes the binary under test may return.
ExitCodes == {0, 1, 3}

\* One entry of data["fixtures"]: "file" and "url" may be absent; two entries
\* may share an id or a file name.  An entry without url is taken with one
\* file name only: ensure_download rejects it whatever its file is.
Fixture == {f \in [id : Ids, file : Files \cup {Missing},
                   url : Urls \cup {Missing}, suite : Suites] :
               /\ f.url \in {UrlOf(f.id), Missing}
               /\ f.url = Missing => f.file = "a.mp4"}

\* Sequences over S of length at most n.
SeqUpTo(S, n) == UNION {[1..k -> S] : k \in 0..n}

\* parse_args(): the namespace main() reads.
Args == [suite : SuiteChoices, skip_build : BOOLEAN, release : BOOLEAN]

\* Path("target") / ("release" if release else "debug") / "slain"
BinaryPath(release) ==
    IF release THEN "target/release/slain" ELSE "target/debug/slain"

BinaryPaths == {BinaryPath(TRUE), BinaryPath(FALSE)}

\* downloads_dir / filename
TargetPath(filename) == <<"slain-player/fixtures/downloads", filename>>

\* log_dir / f"{fixture_id}.log"
LogPath(fixture_id) == <<"log_dir", fixture_id>>

NoPath == <<>>

\* An environment without RUST_LOG.
BaseEnv == [name \in {"PATH"} |-> "/usr/bin"]

\* env with name set to value.
WithVar(env, name, value) ==
    [n \in DOMAIN env \cup {name} |-> IF n = name THEN value ELSE env[n]]

\* The environments the harness is started in: RUST_LOG unset, or set by the caller.
Environs == {BaseEnv, WithVar(BaseEnv, "RUST_LOG", "debug")}

(* --------------------------- pure helpers ----------------------------- *)

\* [f for f in fixtures if f.get("suite") == "smoke"]
RECURSIVE SmokeOnly(_)
SmokeOnly(fs) ==
    IF fs = <<>> THEN <<>>
    ELSE IF Head(fs).suite = "smoke"
         THEN <<Head(fs)>> \o SmokeOnly(Tail(fs))
         ELSE SmokeOnly(Tail(fs))

\* Variant of SmokeOnly that stops at the first entry of another suite.
RECURSIVE SmokeLeading(_)
SmokeLeading(fs) ==
    IF fs = <<>> \/ Head(fs).suite # "smoke" THEN <<>>
    ELSE <<Head(fs)>> \o SmokeLeading(Tail(fs))

\* Variant of FilterSuite: only the smoke entries that lead the catalog.
FilterSuiteLeading(fs, suite) == IF suite = "smoke" THEN SmokeLeading(fs) ELSE fs

\* Variant of SmokeOnly for any tag.
RECURSIVE TaggedOnly(_, _)
TaggedOnly(fs, tag) ==
    IF fs = <<>> THEN <<>>
    ELSE IF Head(fs).suite = tag
         THEN <<Head(fs)>> \o TaggedOnly(Tail(fs), tag)
         ELSE TaggedOnly(Tail(fs), tag)

\* Variant of FilterSuite: the filter is applied for every suite value.
FilterSuiteByTag(fs, suite) == TaggedOnly(fs, suite)

\* Variant of FilterSuite: no filter at all.
FilterSuiteNone(fs, suite) == fs

\* main lines 173-174: the filter is applied for --suite smoke only.
FilterSuite(fs, suite) == IF suite = "smoke" THEN SmokeOnly(fs) ELSE fs

\* dict.setdefault(name, value) on a copy of env
SetDefault(env, name, value) ==
    IF name \in DOMAIN env THEN env ELSE WithVar(env, name, value)

\* Variant of ChildEnv: RUST_LOG is set whatever the caller defined.
ChildEnvOverride(env) == WithVar(env, "RUST_LOG", "info")

\* run_fixture lines 102-103: env = os.environ.copy(); env.setdefault("RUST_LOG", "info")
ChildEnv(env) == SetDefault(env, "RUST_LOG", "info")

\* Variant of ResultOf: exit code 1 counts as a pass too.
ResultOfLenient(returncode) == IF returncode <= 1 THEN "pass" ELSE "fail"

\* "pass" if proc.returncode == 0 else "fail"
ResultOf(returncode) == IF returncode = 0 THEN "pass" ELSE "fail"

\* The dict run_fixture returns (the fields the checks read).
FixtureResult(fixture_id, returncode) ==
    [id |-> fixture_id, result |-> ResultOf(returncode), log |-> LogPath(fixture_id)]

\* failures = [result for result in results if result["result"] != "pass"]
Failures(rs) == {i \in 1..Len(rs) : rs[i].result # "pass"}

\* Variant of LoopAt: past the last fixture main() goes straight to the exit
\* decision.
LoopAtSkipReport(i) == IF i <= Len(fixtures) THEN "ENSURE_ASSET" ELSE "DECIDE_EXIT"

\* Position of the loop after the iteration at i: next fixture or past the loop.
LoopAt(i) == IF i <= Len(fixtures) THEN "ENSURE_ASSET" ELSE "GENERATE_REPORT"

(* ------------------------------ actions ------------------------------- *)

Init ==
    /\ environ \in Environs
    /\ args \in Args
    /\ matrix \in SeqUpTo(Fixture, MaxCatalog)
    /\ cache \in SUBSET Files
    /\ disk \in SUBSET {BinaryPath(args.release)}
    /\ pc = "LOAD_FIXTURES"
    /\ fixtures = <<>>
    /\ binary = None
    /\ idx = 1
    /\ file_path = NoPath
    /\ results = <<>>
    /\ logs = [i \in Ids |-> <<>>]
    /\ reports = <<>>
    /\ exit_status = <<>>
    /\ error = "none"
    /\ ensured = <<>>
    /\ downloads = <<>>
    /\ executed = <<>>
    /\ builds = <<>>

\* How a call made by main() returns: an exception of the callee (error' set)
\* leaves main() uncaught and the interpreter ends with status 1; otherwise
\* main() goes on at `next`.
Propagate(next) ==
    /\ pc' = IF error' = "none" THEN next ELSE "FAILURE"
    /\ exit_status' = IF error' = "none" THEN exit_status ELSE <<1>>

\* fixtures = load_fixtures(fixtures_path)
LoadFixtures ==
    /\ pc = "LOAD_FIXTURES"
    /\ IF matrix = <<>>
       THEN /\ error' = "CatalogError"
            /\ UNCHANGED fixtures
       ELSE /\ error' = "none"
            /\ fixtures' = matrix
    /\ Propagate("SELECT_SUITE")
    /\ UNCHANGED <<environ, args, matrix, cache, disk, binary, idx, file_path, results,
                   logs, reports, ensured, downloads, executed, builds>>

\* Variant of SelectSuite: an empty selection is not rejected.
SelectSuiteNoGuard ==
    /\ pc = "SELECT_SUITE"
    /\ fixtures' = FilterSuite(fixtures, args.suite)
    /\ error' = "none"
    /\ Propagate("PROVISION_BINARY")
    /\ UNCHANGED <<environ, args, matrix, cache, disk, binary, idx, file_path, results,
                   logs, reports, ensured, downloads, executed, builds>>

\* main lines 173-177: filter by suite, reject an empty selection.
SelectSuite ==
    /\ pc = "SELECT_SUITE"
    /\ fixtures' = FilterSuite(fixtures, args.suite)
    /\ error' = IF fixtures' = <<>> THEN "SelectionError" ELSE "none"
    /\ Propagate("PROVISION_BINARY")
    /\ UNCHANGED <<environ, args, matrix, cache, disk, binary, idx, file_path, results,
                   logs, reports, ensured, downloads, executed, builds>>

\* What cargo build can do: fail, or succeed and leave the artifact or not.
BuildOutcomes == {"failed", "built", "no_artifact"}

\* Variant of BuildBinary: the artifact is not looked for after the build.
BuildBinaryNoCheck(release) ==
    \E outcome \in BuildOutcomes :
        /\ builds' = Append(builds, release)
        /\ disk' = IF outcome = "built" THEN disk \cup {BinaryPath(release)} ELSE disk
        /\ error' = IF outcome = "failed" THEN "BuildError" ELSE "none"
        /\ binary' = IF error' = "none" THEN BinaryPath(release) ELSE binary

\* build_binary(release): sets binary' to the returned path.
BuildBinary(release) ==
    \E outcome \in BuildOutcomes :
        /\ builds' = Append(builds, release)
        /\ disk' = IF outcome = "built" THEN disk \cup {BinaryPath(release)} ELSE disk
        /\ error' = IF outcome = "failed" THEN "BuildError"
                    ELSE IF BinaryPath(release) \notin disk' THEN "BinaryNotFoundError"
                    ELSE "none"
        /\ binary' = IF error' = "none" THEN BinaryPath(release) ELSE binary

\* main lines 179-183: binary = build_binary(...) if not args.skip_build else None
ProvisionBinary ==
    /\ pc = "PROVISION_BINARY"
    /\ IF ~args.skip_build
       THEN BuildBinary(args.release)
       ELSE /\ binary' = None
            /\ error' = "none"
            /\ UNCHANGED <<disk, builds>>
    /\ idx' = 1
    /\ Propagate(LoopAt(1))
    /\ UNCHANGED <<environ, args, matrix, cache, fixtures, file_path, results, logs,
                   reports, ensured, downloads, executed>>

\* What urlretrieve can do: store the file, fail before creating it, or fail
\* after creating it (a truncated file stays at target_path).
FetchOutcomes == {"stored", "failed", "failed_partial"}

\* Variant of EnsureDownload: only "file" is required.
EnsureDownloadFileOnly(fixture) ==
    /\ ensured' = Append(ensured, fixture)
    /\ IF fixture.file = Missing
       THEN /\ error' = "FixtureDefinitionError"
            /\ UNCHANGED <<cache, downloads, file_path>>
       ELSE IF fixture.file \in cache
       THEN /\ error' = "none"
            /\ file_path' = TargetPath(fixture.file)
            /\ UNCHANGED <<cache, downloads>>
       ELSE \E outcome \in FetchOutcomes :
            /\ downloads' = Append(downloads, fixture)
            /\ cache' = IF outcome = "failed" THEN cache ELSE cache \cup {fixture.file}
            /\ error' = IF outcome = "stored" THEN "none" ELSE "DownloadError"
            /\ file_path' = IF outcome = "stored" THEN TargetPath(fixture.file)
                            ELSE file_path

\* Variant of EnsureDownload: the asset is fetched whether it is cached or not.
EnsureDownloadAlwaysFetch(fixture) ==
    /\ ensured' = Append(ensured, fixture)
    /\ IF fixture.file = Missing \/ fixture.url = Missing
       THEN /\ error' = "FixtureDefinitionError"
            /\ UNCHANGED <<cache, downloads, file_path>>
       ELSE \E outcome \in FetchOutcomes :
            /\ downloads' = Append(downloads, fixture)
            /\ cache' = IF outcome = "failed" THEN cache ELSE cache \cup {fixture.file}
            /\ error' = IF outcome = "stored" THEN "none" ELSE "DownloadError"
            /\ file_path' = IF outcome = "stored" THEN TargetPath(fixture.file)
                            ELSE file_path

\* Variant of EnsureDownload: a failed fetch is tried a second time.
EnsureDownloadRetry(fixture) ==
    /\ ensured' = Append(ensured, fixture)
    /\ IF fixture.file = Missing \/ fixture.url = Missing
       THEN /\ error' = "FixtureDefinitionError"
            /\ UNCHANGED <<cache, downloads, file_path>>
       ELSE IF fixture.file \in cache
       THEN /\ error' = "none"
            /\ file_path' = TargetPath(fixture.file)
            /\ UNCHANGED <<cache, downloads>>
       ELSE \E first \in FetchOutcomes, second \in FetchOutcomes :
            LET outcome == IF first = "stored" THEN first ELSE second IN
            /\ downloads' = IF first = "stored" THEN Append(downloads, fixture)
                            ELSE downloads \o <<fixture, fixture>>
            /\ cache' = IF first = "failed" /\ second = "failed" THEN cache
                        ELSE cache \cup {fixture.file}
            /\ error' = IF outcome = "stored" THEN "none" ELSE "DownloadError"
            /\ file_path' = IF outcome = "stored" THEN TargetPath(fixture.file)
                            ELSE file_path

\* ensure_download(fixture, downloads_dir): sets file_path' to the returned path.
EnsureDownload(fixture) ==
    /\ ensured' = Append(ensured, fixture)
    /\ IF fixture.file = Missing \/ fixture.url = Missing
       THEN /\ error' = "FixtureDefinitionError"
            /\ UNCHANGED <<cache, downloads, file_path>>
       ELSE IF fixture.file \in cache
       THEN /\ error' = "none"
            /\ file_path' = TargetPath(fixture.file)
            /\ UNCHANGED <<cache, downloads>>
       ELSE \E outcome \in FetchOutcomes :
            /\ downloads' = Append(downloads, fixture)
            /\ cache' = IF outcome = "failed" THEN cache ELSE cache \cup {fixture.file}
            /\ error' = IF outcome = "stored" THEN "none" ELSE "DownloadError"
            /\ file_path' = IF outcome = "stored" THEN TargetPath(fixture.file)
                            ELSE file_path

\* Variant of EnsureAsset: a fixture whose asset cannot be ensured is skipped
\* and the loop goes on with the next fixture.
EnsureAssetSkipOnError ==
    /\ pc = "ENSURE_ASSET"
    /\ EnsureDownload(fixtures[idx])
    /\ IF error' = "none"
       THEN pc' = "EXECUTE" /\ idx' = idx
       ELSE pc' = LoopAt(idx + 1) /\ idx' = idx + 1
    /\ UNCHANGED <<environ, args, matrix, disk, fixtures, binary, results, logs,
                   reports, exit_status, executed, builds>>

\* main line 186: file_path = ensure_download(fixture, downloads_dir)
EnsureAsset ==
    /\ pc = "ENSURE_ASSET"
    /\ EnsureDownload(fixtures[idx])
    /\ Propagate("EXECUTE")
    /\ UNCHANGED <<environ, args, matrix, disk, fixtures, binary, idx, results, logs,
                   reports, executed, builds>>

\* What subprocess.run of the binary can do: the program cannot be started
\* (OSError), or it runs and returns an exit code.
ProcOutcomes(bin) ==
    IF bin \in disk
    THEN [launched : {TRUE}, returncode : ExitCodes]
    ELSE [launched : {FALSE}, returncode : {0}]

\* run_fixture(binary, fixture, file_path, log_dir) with the outcome `proc` of
\* subprocess.run: the log is written after the process returned.
RunFixture(bin, fixture, path, proc) ==
    IF proc.launched
    THEN /\ executed' = Append(executed, [fixture |-> fixture, binary |-> bin, input |-> path,
                                         env |-> ChildEnv(environ)])
         /\ logs' = [logs EXCEPT ![fixture.id] = Append(@, proc.returncode)]
         /\ error' = "none"
    ELSE /\ error' = "ExecError"
         /\ UNCHANGED <<executed, logs>>

\* Variant of Execute: the loop is left at the first failing fixture.
ExecuteBreakOnFail ==
    /\ pc = "EXECUTE"
    /\ binary' = IF binary = None THEN BinaryPath(args.release) ELSE binary
    /\ \E proc \in ProcOutcomes(binary') :
        /\ RunFixture(binary', fixtures[idx], file_path, proc)
        /\ results' = IF proc.launched
                      THEN Append(results, FixtureResult(fixtures[idx].id, proc.returncode))
                      ELSE results
        /\ idx' = IF proc.launched THEN idx + 1 ELSE idx
        /\ Propagate(IF proc.launched /\ proc.returncode # 0
                     THEN "GENERATE_REPORT" ELSE LoopAt(idx + 1))
    /\ UNCHANGED <<environ, args, matrix, cache, disk, fixtures, file_path, reports,
                   ensured, downloads, builds>>

\* Variant of Execute: the newest result is put in front of the others.
ExecutePrepend ==
    /\ pc = "EXECUTE"
    /\ binary' = IF binary = None THEN BinaryPath(args.release) ELSE binary
    /\ \E proc \in ProcOutcomes(binary') :
        /\ RunFixture(binary', fixtures[idx], file_path, proc)
        /\ results' = IF proc.launched
                      THEN <<FixtureResult(fixtures[idx].id, proc.returncode)>> \o results
                      ELSE results
        /\ idx' = IF proc.launched THEN idx + 1 ELSE idx
    /\ Propagate(LoopAt(idx + 1))
    /\ UNCHANGED <<environ, args, matrix, cache, disk, fixtures, file_path, reports,
                   ensured, downloads, builds>>

\* Variant of Execute: a skipped build always resolves to the debug path.
ExecuteDebugPath ==
    /\ pc = "EXECUTE"
    /\ binary' = IF binary = None THEN BinaryPath(FALSE) ELSE binary
    /\ \E proc \in ProcOutcomes(binary') :
        /\ RunFixture(binary', fixtures[idx], file_path, proc)
        /\ results' = IF proc.launched
                      THEN Append(results, FixtureResult(fixtures[idx].id, proc.returncode))
                      ELSE results
        /\ idx' = IF proc.launched THEN idx + 1 ELSE idx
    /\ Propagate(LoopAt(idx + 1))
    /\ UNCHANGED <<environ, args, matrix, cache, disk, fixtures, file_path, reports,
                   ensured, downloads, builds>>

\* main lines 187-189: resolve the binary path, run the fixture, append the
\* result, go to the next fixture.
Execute ==
    /\ pc = "EXECUTE"
    /\ binary' = IF binary = None THEN BinaryPath(args.release) ELSE binary
    /\ \E proc \in ProcOutcomes(binary') :
        /\ RunFixture(binary', fixtures[idx], file_path, proc)
        /\ results' = IF proc.launched
                      THEN Append(results, FixtureResult(fixtures[idx].id, proc.returncode))
                      ELSE results
        /\ idx' = IF proc.launched THEN idx + 1 ELSE idx
    /\ Propagate(LoopAt(idx + 1))
    /\ UNCHANGED <<environ, args, matrix, cache, disk, fixtures, file_path, reports,
                   ensured, downloads, builds>>

\* Variant of ReportOf: the log list names the failing fixtures only.
ReportOfFailureLogs(rs, suite) ==
    LET failed == SelectSeq(rs, LAMBDA r : r.result # "pass") IN
    [suite |-> suite,
     rows  |-> [i \in 1..Len(rs) |-> <<rs[i].id, rs[i].result>>],
     logs  |-> [i \in 1..Len(failed) |-> <<failed[i].id, failed[i].log>>]]

\* write_report(results, suite, report_path): the table rows and the log list.
ReportOf(rs, suite) ==
    [suite |-> suite,
     rows  |-> [i \in 1..Len(rs) |-> <<rs[i].id, rs[i].result>>],
     logs  |-> [i \in 1..Len(rs) |-> <<rs[i].id, rs[i].log>>]]

\* main lines 191-192
GenerateReport ==
    /\ pc = "GENERATE_REPORT"
    /\ reports' = Append(reports, ReportOf(results, args.suite))
    /\ pc' = "DECIDE_EXIT"
    /\ UNCHANGED <<environ, args, matrix, cache, disk, fixtures, binary, idx, file_path,
                   results, logs, exit_status, error, ensured, downloads,
                   executed, builds>>

\* Variant of DecideExit: status 1 only when every result is a failure.
DecideExitAllFail ==
    /\ pc = "DECIDE_EXIT"
    /\ IF Failures(results) = 1..Len(results)
       THEN /\ exit_status' = <<1>>
            /\ pc' = "FAILURE"
       ELSE /\ exit_status' = <<0>>
            /\ pc' = "SUCCESS"
    /\ UNCHANGED <<environ, args, matrix, cache, disk, fixtures, binary, idx, file_path,
                   results, logs, reports, error, ensured, downloads, executed,
                   builds>>

\* main lines 194-202 and sys.exit(main())
DecideExit ==
    /\ pc = "DECIDE_EXIT"
    /\ IF Failures(results) # {}
       THEN /\ exit_status' = <<1>>
            /\ pc' = "FAILURE"
       ELSE /\ exit_status' = <<0>>
            /\ pc' = "SUCCESS"
    /\ UNCHANGED <<environ, args, matrix, cache, disk, fixtures, binary, idx, file_path,
                   results, logs, reports, error, ensured, downloads, executed,
                   builds>>

Next ==
    \/ LoadFixtures
    \/ SelectSuite
    \/ ProvisionBinary
    \/ EnsureAsset
    \/ Execute
    \/ GenerateReport
    \/ DecideExit

\* One run of main().
Spec == Init /\ [][Next]_vars

\* The runs whose progress is examined: the environment and the content of
\* downloads_dir at the start do not decide which step comes next, so one
\* environment and the empty directory stand for all.
InitFair ==
    /\ Init
    /\ environ = BaseEnv
    /\ cache = {}

\* One run of main() in which the interpreter goes on whenever it can: the
\* steps that wait for nothing outside the process are taken. The build
\* (line 77), the fetch (line 72) and the binary under test (line 106) are
\* waited for without a timeout, so the steps containing them may never happen.
SpecFair ==
    /\ InitFair
    /\ [][Next]_vars
    /\ WF_vars(LoadFixtures \/ SelectSuite \/ GenerateReport \/ DecideExit)
    /\ WF_vars(args.skip_build /\ ProvisionBinary)
    /\ WF_vars(EnsureAsset /\ downloads' = downloads)

(* ---------------- ensure_download called on its own ------------------- *)

\* A caller that calls ensure_download any number of times, catching what it
\* raises: the other variables stay as they are.
InitCache ==
    /\ Init
    /\ args = [suite |-> "smoke", skip_build |-> TRUE, release |-> FALSE]
    /\ matrix = <<>>
    /\ disk = {}

EnsureCall ==
    /\ Len(ensured) < MaxCalls
    /\ \E fixture \in Fixture : EnsureDownload(fixture)
    /\ UNCHANGED <<environ, args, matrix, disk, pc, fixtures, binary, idx, results, logs,
                   reports, exit_status, executed, builds>>

NextCache == EnsureCall

SpecCache == InitCache /\ [][NextCache]_vars

(* ------------------- a run on an empty downloads dir ------------------- *)

\* main() started with nothing in downloads_dir (ensure_download line 68 finds
\* no file until line 72 has stored one).
InitColdCache ==
    /\ Init
    /\ cache = {}

SpecColdCache == InitColdCache /\ [][Next]_vars

(* ------------------------------- claims ------------------------------- *)

Terminated == pc \in {"SUCCESS", "FAILURE"}

\* The selection has been made: main() is past line 177.
PastSelection == pc \notin {"LOAD_FIXTURES", "SELECT_SUITE"}

\* C1 - exit-code law: a run that has ended has exit code 0 or 1, and the code is
\* 0 exactly when no fatal error occurred, every selected fixture has a result
\* and every result is pass; the process has an exit code only once it ended.
ExitCodeLaw ==
    /\ Terminated <=> exit_status # <<>>
    /\ Terminated =>
        /\ exit_status \in {<<0>>, <<1>>}
        /\ exit_status = <<0>> <=>
              /\ error = "none"
              /\ Len(results) = Len(fixtures)
              /\ \A i \in 1..Len(results) : results[i].result = "pass"

\* C1 witness: a run of two fixtures, both passing, has ended with code 0.
ExitCodeLawWitness ==
    /\ pc = "SUCCESS"
    /\ exit_status = <<0>>
    /\ Len(results) = 2

\* C2 - continue on fixture failure: a failing result never ends the loop.  The
\* fixture after a failing one is being processed, has a result, or raised a
\* fatal error of its own; and a report is only written over one result per
\* selected fixture.
ContinueOnFailure ==
    /\ reports # <<>> => Len(results) = Len(fixtures)
    /\ \A i \in 1..Len(results) :
          (results[i].result = "fail" /\ i < Len(fixtures)) =>
              \/ Len(results) > i
              \/ idx = i + 1 /\ pc \in {"ENSURE_ASSET", "EXECUTE"}
              \/ idx = i + 1 /\ pc = "FAILURE" /\ error # "none"

\* C2 witness: the first fixture failed, the second one was still ensured and
\* executed, and the report holds both results.
ContinueOnFailureWitness ==
    /\ reports # <<>>
    /\ Len(results) = 2
    /\ results[1].result = "fail"
    /\ Len(ensured) = 2
    /\ Len(executed) = 2

\* C3 - fatal abort: once an error of a fatal category was raised the run has
\* ended with exit code 1, no report is written, and no step of main() (no
\* download, build or execution) can follow.
FatalAbort ==
    error # "none" =>
        /\ pc = "FAILURE"
        /\ exit_status = <<1>>
        /\ reports = <<>>
        /\ ~ENABLED Next

\* C3 witness: a download failed after an earlier fixture had already run.
FatalAbortWitness ==
    /\ error = "DownloadError"
    /\ Len(results) = 1
    /\ pc = "FAILURE"

HasTag(f, tag) == f.suite = tag

\* The entries of fs whose suite field is tag, in the order of fs.
BySuite(fs, tag) == SelectSeq(fs, LAMBDA f : HasTag(f, tag))

Range(s) == {s[i] : i \in 1..Len(s)}

IsPrefix(s, t) == Len(s) <= Len(t) /\ \A i \in 1..Len(s) : s[i] = t[i]

\* The fixtures the binary under test was run for, in order.
ExecutedFixtures == [i \in 1..Len(executed) |-> executed[i].fixture]

\* A fixture that lacks file or url.
Malformed(f) == f.file = Missing \/ f.url = Missing

\* C4 - smoke filtering: with --suite smoke the selection is the smoke-tagged
\* entries of the catalog in catalog order; assets are ensured and the binary is
\* run for them in that order and for nothing else, and for all of them once
\* the report is written.
SmokeFiltering ==
    args.suite = "smoke" =>
        LET sel == BySuite(matrix, "smoke") IN
        /\ PastSelection => fixtures = sel
        /\ IsPrefix(ensured, sel)
        /\ IsPrefix(ExecutedFixtures, sel)
        /\ Range(downloads) \subseteq Range(ensured)
        /\ reports # <<>> => ensured = sel /\ ExecutedFixtures = sel

\* C4 witness: a full-tagged entry precedes a smoke-tagged one; only the latter
\* was downloaded and executed.
SmokeFilteringWitness ==
    /\ args.suite = "smoke"
    /\ Len(matrix) = 2
    /\ matrix[1].suite = "full"
    /\ matrix[2].suite = "smoke"
    /\ downloads = <<matrix[2]>>
    /\ ExecutedFixtures = <<matrix[2]>>
    /\ reports # <<>>

\* C5 as stated - for every suite value the selection is the entries carrying
\* that tag, and a catalog without such an entry gives a selection error.
FilterByTagEverySuite ==
    (PastSelection /\ matrix # <<>>) =>
        /\ fixtures = BySuite(matrix, args.suite)
        /\ BySuite(matrix, args.suite) = <<>> => error = "SelectionError"

\* C5 as amended - with --suite smoke the selection is the smoke-tagged entries
\* in catalog order; with --suite full it is the whole catalog; a selection
\* error is raised exactly for --suite smoke on a non-empty catalog without a
\* smoke-tagged entry.
SelectionBySuiteValue ==
    PastSelection =>
        LET smoke == BySuite(matrix, "smoke") IN
        /\ args.suite = "smoke" => fixtures = smoke
        /\ args.suite = "full" => fixtures = matrix
        /\ error = "SelectionError" <=>
              /\ matrix # <<>>
              /\ args.suite = "smoke"
              /\ smoke = <<>>

\* C5 witness: --suite full on a catalog of two smoke-tagged fixtures ran both.
SelectionBySuiteValueWitness ==
    /\ args.suite = "full"
    /\ Len(matrix) = 2
    /\ BySuite(matrix, "full") = <<>>
    /\ Len(executed) = 2
    /\ pc = "SUCCESS"

\* C6 as stated - when no entry of a non-empty catalog carries the requested
\* suite tag, a selection error is raised and nothing is built or downloaded.
EmptySelectionGuardByTag ==
    (matrix # <<>> /\ BySuite(matrix, args.suite) = <<>>) =>
        /\ builds = <<>>
        /\ downloads = <<>>
        /\ PastSelection => error = "SelectionError"

\* C6 as amended - when --suite smoke is requested and no entry of a non-empty
\* catalog is tagged smoke, the selection step raises a selection error, the
\* run ends there, and nothing is ever built, ensured, downloaded or executed.
EmptySelectionGuard ==
    (matrix # <<>> /\ args.suite = "smoke" /\ BySuite(matrix, "smoke") = <<>>) =>
        /\ builds = <<>>
        /\ ensured = <<>>
        /\ downloads = <<>>
        /\ executed = <<>>
        /\ PastSelection => error = "SelectionError" /\ pc = "FAILURE"

\* C6 witness: a build was requested, the two fixtures are tagged full, and the
\* run ended with a selection error before the build.
EmptySelectionGuardWitness ==
    /\ args.suite = "smoke"
    /\ ~args.skip_build
    /\ Len(matrix) = 2
    /\ error = "SelectionError"
    /\ builds = <<>>

\* C7 - deterministic ordering: the ids of the results are a prefix of the ids
\* of the selected fixtures, and the whole of it once the report is written.
DeterministicOrdering ==
    /\ Len(results) <= Len(fixtures)
    /\ \A i \in 1..Len(results) : results[i].id = fixtures[i].id
    /\ reports # <<>> => Len(results) = Len(fixtures)

\* C7 witness: two fixtures with different ids and different outcomes.
DeterministicOrderingWitness ==
    /\ reports # <<>>
    /\ Len(results) = 2
    /\ results[1].id = "b" /\ results[1].result = "fail"
    /\ results[2].id = "a" /\ results[2].result = "pass"

IdempotentCaching ==
    [][ensured' # ensured =>
          LET f == ensured'[Len(ensured')] IN
          (f.file \in cache /\ f.url # Missing) =>
              /\ downloads' = downloads
              /\ cache' = cache
              /\ error' = "none"
              /\ file_path' = TargetPath(f.file)]_vars

\* C9 witness: three calls for the same cached fixture, no fetch, same path.
IdempotentCachingWitness ==
    /\ Len(ensured) = 3
    /\ ensured[1] = ensured[2] /\ ensured[2] = ensured[3]
    /\ ensured[1].file \in cache
    /\ downloads = <<>>
    /\ error = "none"
    /\ file_path = TargetPath(ensured[1].file)

\* The selection of the command line: the smoke-tagged entries for --suite
\* smoke, the whole catalog for --suite full.
Selection == IF args.suite = "smoke" THEN BySuite(matrix, "smoke") ELSE matrix

\* C10 - non-selected fixtures are never touched: assets are ensured and
\* downloaded, and the binary is run, only for fixtures of the selection; and
\* the report has one row per selected fixture, in order, and no other row.
NonSelectedUntouched ==
    LET sel == Selection
        selected == Range(sel)
    IN  /\ Range(ensured) \subseteq selected
        /\ Range(downloads) \subseteq selected
        /\ Range(ExecutedFixtures) \subseteq selected
        /\ \A r \in Range(reports) :
              /\ Len(r.rows) = Len(sel)
              /\ \A i \in 1..Len(r.rows) : r.rows[i][1] = sel[i].id

\* C10 witness: catalog <<a (smoke), b (full)>> run with --suite smoke; only
\* a's asset was downloaded and the report has the one row of a.
NonSelectedUntouchedWitness ==
    /\ args.suite = "smoke"
    /\ Len(matrix) = 2
    /\ matrix[1].id = "a" /\ matrix[1].suite = "smoke"
    /\ matrix[2].id = "b" /\ matrix[2].suite = "full"
    /\ downloads = <<matrix[1]>>
    /\ Len(reports) = 1
    /\ Len(reports[1].rows) = 1
    /\ reports[1].rows[1][1] = "a"

\* The provisioning step (line 180) has been passed without an error.
Provisioned == pc \in {"ENSURE_ASSET", "EXECUTE", "GENERATE_REPORT", "DECIDE_EXIT"}
                  \/ ensured # <<>>

\* C11 - build once and before the loop: the build is invoked at most once, with
\* the release flag of the command line; when it is not skipped, nothing is
\* ensured, downloaded or executed before it, it has been invoked exactly once
\* when the loop starts, and a failed build or a missing artifact ends the run
\* with nothing ensured, downloaded or executed.
BuildOnceBeforeLoop ==
    /\ Len(builds) <= 1
    /\ ~args.skip_build =>
        /\ builds = <<>> => ensured = <<>> /\ downloads = <<>> /\ executed = <<>>
        /\ Provisioned => builds = <<args.release>>
        /\ (builds # <<>> /\ BinaryPath(args.release) \notin disk) =>
              error \in {"BuildError", "BinaryNotFoundError"}
        /\ error \in {"BuildError", "BinaryNotFoundError"} =>
              /\ pc = "FAILURE"
              /\ builds = <<args.release>>
              /\ ensured = <<>> /\ downloads = <<>> /\ executed = <<>>

\* C11 witness: one release build, then two downloads and two executions.
BuildOnceBeforeLoopWitness ==
    /\ ~args.skip_build
    /\ builds = <<TRUE>>
    /\ Len(downloads) = 2
    /\ Len(executed) = 2

\* C12 - skip-build provisioning: with --skip-build the build is never invoked,
\* no build or binary-not-found error is raised, the loop is entered with the
\* path unresolved, and the binary path of every execution is the
\* mode-dependent path a build would have returned.
SkipBuildProvisioning ==
    args.skip_build =>
        /\ builds = <<>>
        /\ error \notin {"BuildError", "BinaryNotFoundError"}
        /\ binary \in {None, BinaryPath(args.release)}
        /\ \A i \in 1..Len(executed) : executed[i].binary = BinaryPath(args.release)
        /\ (pc = "ENSURE_ASSET" /\ idx = 1) => binary = None

\* C12 witness: --skip-build --release, two fixtures run with target/release/slain.
SkipBuildProvisioningWitness ==
    /\ args.skip_build
    /\ args.release
    /\ Len(executed) = 2
    /\ executed[1].binary = "target/release/slain"
    /\ executed[2].binary = "target/release/slain"

\* C12 witness of the missing verification: the loop was entered although the
\* binary does not exist.
SkipBuildUnverified ==
    /\ args.skip_build
    /\ BinaryPath(args.release) \notin disk
    /\ pc = "EXECUTE"

\* C13 as stated - with --skip-build and the binary absent, a run that gets to
\* execute a fixture records a fail result for every selected fixture, writes
\* the report and ends with exit code 1.
MissingBinaryIsFixtureFailure ==
    (/\ args.skip_build
     /\ BinaryPath(args.release) \notin disk
     /\ Terminated
     /\ error \notin {"CatalogError", "SelectionError", "FixtureDefinitionError",
                      "DownloadError"}) =>
        /\ Len(results) = Len(fixtures)
        /\ \A i \in 1..Len(results) : results[i].result = "fail"
        /\ Len(reports) = 1
        /\ exit_status = <<1>>

\* The exit code in the log entry written by the run that gave result i: the
\* k-th result of an id goes with the k-th write of log_dir/{id}.log.
LogEntry(i) ==
    LET same == {j \in 1..i : results[j].id = results[i].id}
    IN  logs[results[i].id][Cardinality(same)]

\* C14 - pass iff exit code zero: every result has its own entry in the log of
\* its id, the result is pass exactly when the exit code written there is 0,
\* and nothing else is written to the logs.
PassIffExitZero ==
    /\ \A i \in 1..Len(results) :
          /\ Cardinality({j \in 1..i : results[j].id = results[i].id})
                 <= Len(logs[results[i].id])
          /\ results[i].result \in {"pass", "fail"}
          /\ results[i].result = "pass" <=> LogEntry(i) = 0
    /\ \A fixture_id \in Ids :
          Len(logs[fixture_id]) =
              Cardinality({j \in 1..Len(results) : results[j].id = fixture_id})

\* C14 witness: exit code 3 gave fail for a, exit code 0 gave pass for b.
PassIffExitZeroWitness ==
    /\ Len(results) = 2
    /\ results[1].id = "a" /\ logs["a"] = <<3>> /\ results[1].result = "fail"
    /\ results[2].id = "b" /\ logs["b"] = <<0>> /\ results[2].result = "pass"

\* C15 - environment overlay: no step changes the environment of the harness,
\* and the environment of every run of the binary is the caller's, variable by
\* variable, plus RUST_LOG = "info" only when the caller does not define it.
EnvironmentOverlay ==
    /\ [][environ' = environ]_vars
    /\ [](\A i \in 1..Len(executed) :
            LET env == executed[i].env IN
            /\ DOMAIN env = DOMAIN environ \cup {"RUST_LOG"}
            /\ \A name \in DOMAIN environ : env[name] = environ[name]
            /\ "RUST_LOG" \notin DOMAIN environ => env["RUST_LOG"] = "info")

\* C15 witness: the caller does not define RUST_LOG; two runs of the binary got
\* the default and the harness environment still has no RUST_LOG.
EnvironmentOverlayWitness ==
    /\ "RUST_LOG" \notin DOMAIN environ
    /\ Len(executed) = 2
    /\ executed[1].env["RUST_LOG"] = "info"
    /\ executed[2].env["RUST_LOG"] = "info"

\* C15, the other case reached: a caller-defined RUST_LOG is passed through.
EnvironmentPassedThrough ==
    /\ "RUST_LOG" \in DOMAIN environ
    /\ Len(executed) = 1
    /\ executed[1].env = environ

\* s can be obtained from t by leaving entries out.
RECURSIVE IsSubseq(_, _)
IsSubseq(s, t) ==
    IF s = <<>> THEN TRUE
    ELSE IF t = <<>> THEN FALSE
    ELSE IF Head(s) = Head(t) THEN IsSubseq(Tail(s), Tail(t))
    ELSE IsSubseq(s, Tail(t))

\* C16 - no retry: the build is invoked at most once; ensure_download is called
\* once per position of the selection, in order, and each call fetches at most
\* once; the binary is run at most once per position, in order; and there is
\* exactly one result per run of the binary, for the same fixture.
NoRetry ==
    /\ Len(builds) <= 1
    /\ IsPrefix(ensured, fixtures)
    /\ IsSubseq(downloads, ensured)
    /\ IsPrefix(ExecutedFixtures, ensured)
    /\ Len(results) = Len(executed)
    /\ \A i \in 1..Len(results) : results[i].id = executed[i].fixture.id

\* C16 witness: one build; the first fixture ran once and failed, then the fetch
\* for the second fixture failed; neither was tried again.
NoRetryWitness ==
    /\ Len(builds) = 1
    /\ Len(results) = 1
    /\ results[1].result = "fail"
    /\ Len(executed) = 1
    /\ Len(downloads) = 2
    /\ error = "DownloadError"

\* C17 - report timing and content: the report is written at most once, after
\* the loop, when every selected fixture has been run and has a result; a run
\* that ends without a fatal error has written it, failures or not; its rows and
\* its log list are the results in order, one entry per result.
ReportTimingAndContent ==
    /\ Len(reports) <= 1
    /\ (Terminated /\ error = "none") => Len(reports) = 1
    /\ \A k \in 1..Len(reports) :
          LET r == reports[k] IN
          /\ pc \in {"DECIDE_EXIT", "SUCCESS", "FAILURE"}
          /\ error = "none"
          /\ Len(results) = Len(fixtures)
          /\ Len(executed) = Len(fixtures)
          /\ r.suite = args.suite
          /\ Len(r.rows) = Len(results)
          /\ Len(r.logs) = Len(results)
          /\ \A i \in 1..Len(results) :
                /\ r.rows[i] = <<fixtures[i].id, results[i].result>>
                /\ r.logs[i] = <<fixtures[i].id, LogPath(fixtures[i].id)>>
                /\ r.logs[i][2] = results[i].log

\* C17 witness: a report over a failing and a passing fixture; the run ended
\* with exit code 1 after writing it.
ReportTimingAndContentWitness ==
    /\ Len(reports) = 1
    /\ Len(reports[1].rows) = 2
    /\ reports[1].rows[1][2] = "fail"
    /\ reports[1].rows[2][2] = "pass"
    /\ Len(reports[1].logs) = 2
    /\ exit_status = <<1>>

\* C18 - unique ids: a catalog that has been loaded without a CatalogError has
\* pairwise distinct fixture ids, the results of a run have pairwise distinct
\* log paths, and no log file is written by more than one run of the binary.
UniqueIds ==
    /\ (pc # "LOAD_FIXTURES" /\ error # "CatalogError") =>
          \A i, j \in 1..Len(matrix) : matrix[i].id = matrix[j].id => i = j
    /\ \A i, j \in 1..Len(results) : results[i].log = results[j].log => i = j
    /\ \A id \in Ids : Len(logs[id]) <= 1

\* C18, the overwrite alone: no log file is written by more than one run.
LogsWrittenOnce == \A id \in Ids : Len(logs[id]) <= 1

\* The position in the selection of the first fixture with the file name of
\* fixture j.
FirstWithFile(j) ==
    CHOOSE i \in 1..j : /\ fixtures[i].file = fixtures[j].file
                        /\ \A k \in 1..(i - 1) : fixtures[k].file # fixtures[j].file

\* The downloads of one file name, in order.
DownloadsOf(filename) == SelectSeq(downloads, LAMBDA f : f.file = filename)

\* C19 - filename-keyed cache within a run that starts on an empty cache: there
\* are at most as many downloads as distinct file names in the selection and no
\* file name is downloaded twice; once a fixture that shares its file name with
\* an earlier fixture has been ensured, the only download of that name is the
\* one of the first fixture with it (with that fixture's url), and every run of
\* the binary for that name gets the same input path.
FilenameKeyedCache ==
    /\ Len(downloads) <=
          Cardinality({fixtures[i].file : i \in 1..Len(fixtures)} \ {Missing})
    /\ \A i, j \in 1..Len(downloads) : downloads[i].file = downloads[j].file => i = j
    /\ \A j \in 1..Len(ensured) :
          LET i == FirstWithFile(j) IN
          (fixtures[j].file # Missing /\ i < j) =>
              /\ DownloadsOf(fixtures[j].file) = <<fixtures[i]>>
              /\ fixtures[j].url # fixtures[i].url =>
                    \A k \in 1..Len(downloads) :
                        ~(downloads[k].file = fixtures[j].file /\ downloads[k].url = fixtures[j].url)
    /\ \A j \in 1..Len(executed) :
          /\ executed[j].fixture = fixtures[j]
          /\ executed[j].input = TargetPath(fixtures[FirstWithFile(j)].file)
          /\ executed[j].input = executed[FirstWithFile(j)].input

\* C19 witness: two selected fixtures share a file name and differ in url; the
\* first was downloaded, the second was not, and both were run on the same path.
FilenameKeyedCacheWitness ==
    /\ Len(fixtures) = 2
    /\ fixtures[1].file = fixtures[2].file
    /\ fixtures[1].url # fixtures[2].url
    /\ fixtures[2].url # Missing
    /\ downloads = <<fixtures[1]>>
    /\ Len(executed) = 2
    /\ executed[2].input = executed[1].input

\* The states of main() in which an external call may be in progress.
Waiting == {"PROVISION_BINARY", "ENSURE_ASSET", "EXECUTE"}

\* Position of a state in the documented order; the loop is one position.
Rank(state) ==
    CASE state = "LOAD_FIXTURES" -> 1
      [] state = "SELECT_SUITE" -> 2
      [] state = "PROVISION_BINARY" -> 3
      [] state \in {"ENSURE_ASSET", "EXECUTE"} -> 4
      [] state = "GENERATE_REPORT" -> 5
      [] state = "DECIDE_EXIT" -> 6
      [] state \in {"SUCCESS", "FAILURE"} -> 7

\* A step of the run follows the documented order: to the next position, an
\* abort to FAILURE, or inside the loop from ENSURE_ASSET to EXECUTE and from
\* EXECUTE to the ENSURE_ASSET of the next fixture; SUCCESS is entered from
\* DECIDE_EXIT only and a terminal state is never left.
InOrder ==
    \/ pc' = pc /\ ~Terminated
    \/ pc' = "FAILURE" /\ ~Terminated
    \/ Rank(pc') = Rank(pc) + 1 /\ (Rank(pc') = 4 => pc' = "ENSURE_ASSET")
    \/ pc = "ENSURE_ASSET" /\ pc' = "EXECUTE"
    \/ pc = "EXECUTE" /\ pc' = "ENSURE_ASSET" /\ idx' = idx + 1

\* C20 - termination: a run in which no external call blocks for ever ends in
\* SUCCESS or FAILURE; the states are passed in the documented order; and a
\* run in which the binary never returns for the i-th fixture never has a
\* result for that fixture or a later one and never writes the report.
Termination ==
    /\ []<>(pc \notin Waiting) => <>Terminated
    /\ [][InOrder]_vars
    /\ \A i \in 1..MaxCatalog :
          <>[](pc = "EXECUTE" /\ idx = i) => [](Len(results) < i /\ reports = <<>>)

\* C20 witness: a run that built the binary, downloaded an asset and ran two
\* fixtures has passed every state and ended in SUCCESS.
TerminationWitness ==
    /\ pc = "SUCCESS"
    /\ Len(builds) = 1
    /\ Len(downloads) >= 1
    /\ Len(results) = 2
    /\ Len(reports) = 1

====
